---- MODULE Spec2Model ----
(***************************************************************************)
(* Model of the example-catalog tooling of the examples repository:        *)
(* internal/utils.py (catalog builder), internal/run_example.py,           *)
(* internal/deploy.py, internal/__main__.py, internal/generate_docs.py     *)
(* and internal/tests/generate_test_plan.py.                               *)
(*                                                                         *)
(* Python strings are modelled as sequences of one-character strings, so   *)
(* that startswith / endswith / "in" / split / join are computed as Python *)
(* computes them.  Optional values are modelled as sequences of length 0   *)
(* (None) or 1.                                                            *)
(***************************************************************************)
EXTENDS Integers, Sequences, FiniteSets, TLC

\* ------------------------------------------------------------------------
\* Bounds of the model
\* ------------------------------------------------------------------------

\* largest number of files in the modelled source tree
MaxFiles == 3

\* largest number of uses a caller makes of one get_examples() value
MaxUses == 3

\* largest number of paths in a changed-file list
MaxChanged == 2

\* largest number of lines of a text given to parse_frontmatter
MaxLines == 5

\* largest number of runs of generate-docs on one output directory
MaxRuns == 2

\* largest number of lines of a source file given to render_example_md
MaxSrcLines == 4

\* ------------------------------------------------------------------------
\* Python str / pathlib primitives
\* ------------------------------------------------------------------------

\* the characters used by the model, in code point order ('.'=46, '/'=47,
\* '4'=52, '_'=95, then the lower-case letters)
CharOrder ==
  << ".", "/", "4", "_", "a", "b", "c", "d", "e", "f", "g", "h", "i", "j", "l", "m", "n",
     "o", "p", "r", "s", "t", "u", "x", "y" >>

Ord(c) == CHOOSE i \in 1..Len(CharOrder) : CharOrder[i] = c

\* str.__lt__: lexicographic comparison by code point
RECURSIVE StrLess(_, _)
StrLess(s, t) ==
  IF t = << >> THEN FALSE
  ELSE IF s = << >> THEN TRUE
  ELSE IF Head(s) = Head(t) THEN StrLess(Tail(s), Tail(t))
  ELSE Ord(Head(s)) < Ord(Head(t))

\* str.startswith
StartsWith(s, p) == Len(p) <= Len(s) /\ SubSeq(s, 1, Len(p)) = p

\* str.endswith
EndsWith(s, p) ==
  Len(p) <= Len(s) /\ SubSeq(s, Len(s) - Len(p) + 1, Len(s)) = p

\* the "in" operator on two strings: p occurs in s
Contains(s, p) ==
  \E i \in 0..(Len(s) - Len(p)) : SubSeq(s, i + 1, i + Len(p)) = p

\* sep.join(parts)
RECURSIVE Join(_, _)
Join(sep, parts) ==
  IF parts = << >> THEN << >>
  ELSE IF Len(parts) = 1 THEN parts[1]
  ELSE parts[1] \o sep \o Join(sep, Tail(parts))

\* s.split(c) for a one-character separator c
RECURSIVE Split(_, _)
Split(s, c) ==
  IF \A i \in 1..Len(s) : s[i] # c THEN << s >>
  ELSE LET i == CHOOSE j \in 1..Len(s) :
                  s[j] = c /\ \A k \in 1..(j - 1) : s[k] # c
       IN << SubSeq(s, 1, i - 1) >> \o Split(SubSeq(s, i + 1, Len(s)), c)

\* name.rfind('.') (0 when there is no dot; positions are 1-based here)
RDot(name) ==
  IF \A i \in 1..Len(name) : name[i] # "." THEN 0
  ELSE CHOOSE i \in 1..Len(name) :
         name[i] = "." /\ \A k \in (i + 1)..Len(name) : name[k] # "."

\* pathlib PurePath.suffix: the last dot-component, unless the only dot is the
\* leading or the trailing character
Suffix(name) ==
  IF 1 < RDot(name) /\ RDot(name) < Len(name)
  THEN SubSeq(name, RDot(name), Len(name))
  ELSE << >>

\* pathlib PurePath.stem
Stem(name) ==
  IF 1 < RDot(name) /\ RDot(name) < Len(name)
  THEN SubSeq(name, 1, RDot(name) - 1)
  ELSE name

\* sorted(...) of a set of names of one directory
RECURSIVE SortNames(_)
SortNames(S) ==
  IF S = {} THEN << >>
  ELSE LET m == CHOOSE x \in S : \A y \in S \ {x} : StrLess(x, y)
       IN << m >> \o SortNames(S \ {m})

\* Optional values
None == << >>
Some(x) == << x >>

\* ------------------------------------------------------------------------
\* String literals of the source
\* ------------------------------------------------------------------------

S_slash == << "/" >>
S_dot == << "." >>
S_py == << ".", "p", "y" >>
S_init == << "_", "_", "i", "n", "i", "t", "_", "_" >>
S_init_py == S_init \o S_py
S_internal == << "i", "n", "t", "e", "r", "n", "a", "l" >>
S_internal_slash == S_internal \o S_slash
S_misc == << "m", "i", "s", "c" >>
S_examples == << "e", "x", "a", "m", "p", "l", "e", "s" >>
S_examples_slash == S_examples \o S_slash
S_examples_dot == S_examples \o S_dot
S_pacc == << "p", "a", "c", "c" >>
S_pacc_slash == S_pacc \o S_slash
S_pacc_dot == S_pacc \o S_dot
S_prefect == << "p", "r", "e", "f", "e", "c", "t" >>
S_run == << "r", "u", "n" >>
S_venv == << "v", "e", "n", "v", "/" >>
S_dotvenv == S_dot \o S_venv
S_env == << "e", "n", "v", "/" >>
S_node_modules ==
  << "n", "o", "d", "e", "_", "m", "o", "d", "u", "l", "e", "s", "/" >>

\* the media extensions that make an Asset
MediaExts ==
  { << ".", "p", "n", "g" >>, << ".", "j", "p", "e", "g" >>,
    << ".", "j", "p", "g" >>, << ".", "g", "i", "f" >>,
    << ".", "m", "p", "4" >> }

\* ExampleType
MODULE_T == 1
ASSET_T == 2

\* ------------------------------------------------------------------------
\* The source tree (input of every command)
\* ------------------------------------------------------------------------
\* A tree is a record [roots, files]: roots is the set of the directories
\* "examples" and "pacc" that exist below EXAMPLES_ROOT; files is a set of
\* records
\*    [root, dirs, name, utf8, meta]
\* root: the root directory the file lies under; dirs: the directory names
\* from that root down to the file; name: the file name; utf8: whether the
\* file's bytes decode as UTF-8; meta: the root-level metadata jupytext reads
\* from the file's header, a function from keys ("draft", "deploy", "cmd",
\* "args") to values.  Directories are the prefixes of the files' dirs.

\* the names listed by Path.iterdir() for the directory root/dirs
IterDir(tree, root, dirs) ==
  { f.name : f \in { g \in tree.files : g.root = root /\ g.dirs = dirs } }
  \cup
  { f.dirs[Len(dirs) + 1] :
      f \in { g \in tree.files :
                /\ g.root = root
                /\ Len(g.dirs) > Len(dirs)
                /\ SubSeq(g.dirs, 1, Len(dirs)) = dirs } }

\* Path.is_dir() of root/dirs/n
IsDir(tree, root, dirs, n) ==
  \E g \in tree.files :
    /\ g.root = root
    /\ Len(g.dirs) > Len(dirs)
    /\ SubSeq(g.dirs, 1, Len(dirs) + 1) = dirs \o << n >>

\* Path.is_file() of root/dirs/n
IsFile(tree, root, dirs, n) ==
  \E g \in tree.files : g.root = root /\ g.dirs = dirs /\ g.name = n

\* the file record at root/dirs/n
FileAt(tree, root, dirs, n) ==
  CHOOSE g \in tree.files : g.root = root /\ g.dirs = dirs /\ g.name = n

\* str(filename.resolve()), written relative to EXAMPLES_ROOT
AbsName(root, dirs, n) == Join(S_slash, << root >> \o dirs \o << n >>)

\* ------------------------------------------------------------------------
\* utils.py: the catalog builder
\* ------------------------------------------------------------------------
\* A generator's run is modelled by the record [entries, error]: the
\* sequence of Examples it yields, and "none" when it then stops normally
\* or the exception it then raises.

\* dict.get(key, default)
Get(d, key, default) == IF key \in DOMAIN d THEN d[key] ELSE default

\* jupytext.read(open(filename_abs, encoding="utf-8")) raises: the path is a
\* directory, or the bytes are not UTF-8
ReadFails(tree, root, dirs, n) ==
  \/ ~IsFile(tree, root, dirs, n)
  \/ ~FileAt(tree, root, dirs, n).utf8

\* data["metadata"]["jupytext"].get("root_level_metadata", {})
RootLevelMetadata(tree, root, dirs, n) == FileAt(tree, root, dirs, n).meta

\* the values the header gives to cmd and args: a YAML list of strings, or a
\* YAML string
ListValue(v) == [t |-> "list", v |-> v]
StrValue(v) == [t |-> "str", v |-> v]

\* cmd = metadata.get("cmd", ["prefect", "run", repo_filename])
Cmd_AlwaysDefault(metadata, repo_filename) ==
  ListValue(<< S_prefect, S_run, repo_filename >>)

Cmd(metadata, repo_filename) ==
  Get(metadata, "cmd", ListValue(<< S_prefect, S_run, repo_filename >>))

\* args = metadata.get("args", [])
Args(metadata) == Get(metadata, "args", ListValue(<< >>))

\* the exception Example(..., cli_args=(cmd + args), ...) raises, "none" when
\* it raises nothing: list + str and str + list are a TypeError, and a str is
\* not a value of the field cli_args: Optional[list]
ExampleError(metadata, repo_filename) ==
  IF Cmd(metadata, repo_filename).t # Args(metadata).t THEN "cmd_type_error"
  ELSE IF Cmd(metadata, repo_filename).t # "list" THEN "ValidationError"
  ELSE "none"

\* Example(type=ExampleType.MODULE, ...)
ModuleExample(filename_abs, metadata, module, repo_filename, stem) ==
  [ type |-> MODULE_T,
    filename |-> filename_abs,
    module |-> Some(module),
    metadata |-> Some(metadata),
    repo_filename |-> repo_filename,
    cli_args |->
      Some(Cmd(metadata, repo_filename).v \o Args(metadata).v),
    stem |-> Some(stem),
    tags |-> Some(Get(metadata, "tags", << >>)),
    env |-> Some(Get(metadata, "env", << >>)) ]

\* Example(type=ExampleType.ASSET, filename=..., repo_filename=...)
AssetExample(filename_abs, repo_filename) ==
  [ type |-> ASSET_T,
    filename |-> filename_abs,
    module |-> None,
    metadata |-> None,
    repo_filename |-> repo_filename,
    cli_args |-> None,
    stem |-> None,
    tags |-> None,
    env |-> None ]

\* the directory name gather_example_files records for the level above:
\* str(subdir.stem)
ParentSegment(subdirName) == Stem(subdirName)

\* the else branch of gather_example_files for one listed name n of the
\* directory root/dirs (subdir = root/dirs, subdir.name = the last of dirs)
ClassifyItem(tree, parents, root, dirs, n) ==
  LET subdirName == dirs[Len(dirs)]
      filename_abs == AbsName(root, dirs, n)
      ext == Suffix(n)
      repo_filename ==
        IF parents # << >>
        THEN Join(S_slash, parents) \o S_slash \o subdirName \o S_slash \o n
        ELSE subdirName \o S_slash \o n
      module ==
        IF parents # << >>
        THEN S_examples_dot \o Join(S_dot, parents) \o S_dot
               \o Stem(subdirName) \o S_dot \o Stem(n)
        ELSE S_examples_dot \o Stem(subdirName) \o S_dot \o Stem(n)
  IN IF ext = S_py /\ Stem(n) # S_init
     THEN IF ReadFails(tree, root, dirs, n)
          THEN [entries |-> << >>, error |-> "read_error", ignored |-> << >>]
          ELSE IF ExampleError(RootLevelMetadata(tree, root, dirs, n),
                               repo_filename) # "none"
          THEN [entries |-> << >>,
                error |-> ExampleError(RootLevelMetadata(tree, root, dirs, n),
                                       repo_filename),
                ignored |-> << >>]
          ELSE [entries |->
                  << ModuleExample(filename_abs,
                                   RootLevelMetadata(tree, root, dirs, n),
                                   module, repo_filename,
                                   Stem(n)) >>,
                error |-> "none", ignored |-> << >>]
     ELSE IF ext \in MediaExts
     THEN [entries |-> << AssetExample(filename_abs, repo_filename) >>,
           error |-> "none", ignored |-> << >>]
     ELSE \* ignored.append(str(filename))
          [entries |-> << >>, error |-> "none",
           ignored |-> << filename_abs >>]

\* a listing that keeps descending below the second level
RecurseBelow_Same(recurse) == recurse

\* recurse=False in the recursive call: two levels deep, but no further
RecurseBelow(recurse) == FALSE

RECURSIVE GatherItems(_, _, _, _, _, _)
\* gather_example_files(parents, subdir, ignored, recurse), subdir = root/dirs
gather_example_files(tree, parents, root, dirs, recurse) ==
  GatherItems(tree, parents, root, dirs, recurse,
              SortNames(IterDir(tree, root, dirs)))

\* the for loop of gather_example_files over the sorted listing
GatherItems(tree, parents, root, dirs, recurse, items) ==
  IF items = << >> THEN [entries |-> << >>, error |-> "none", ignored |-> << >>]
  ELSE LET n == Head(items)
           first ==
             IF IsDir(tree, root, dirs, n) /\ recurse
             THEN GatherItems(tree,
                              parents \o << ParentSegment(dirs[Len(dirs)]) >>,
                              root, dirs \o << n >>, RecurseBelow(recurse),
                              SortNames(IterDir(tree, root, dirs \o << n >>)))
             ELSE ClassifyItem(tree, parents, root, dirs, n)
           rest == GatherItems(tree, parents, root, dirs, recurse, Tail(items))
       IN IF first.error # "none" THEN first
          ELSE [entries |-> first.entries \o rest.entries,
                error |-> rest.error,
                ignored |-> first.ignored \o rest.ignored]

\* the filter of the top-level directories of a root
TopLevelDirs(tree, root) ==
  { n \in IterDir(tree, root, << >>) :
      /\ IsDir(tree, root, << >>, n)
      /\ ~StartsWith(n, S_dot)
      /\ ~StartsWith(n, S_internal)
      /\ ~StartsWith(n, S_misc) }

\* for subdir in sorted(...): yield from gather_example_files([], subdir, ..)
RECURSIVE GatherSubdirs(_, _, _)
GatherSubdirs(tree, root, subdirs) ==
  IF subdirs = << >> THEN [entries |-> << >>, error |-> "none", ignored |-> << >>]
  ELSE LET first ==
             gather_example_files(tree, << >>, root, << Head(subdirs) >>, TRUE)
           rest == GatherSubdirs(tree, root, Tail(subdirs))
       IN IF first.error # "none" THEN first
          ELSE [entries |-> first.entries \o rest.entries,
                error |-> rest.error,
                ignored |-> first.ignored \o rest.ignored]

\* the Python files directly in the PACC directory
PaccFiles(tree) ==
  { n \in IterDir(tree, S_pacc, << >>) :
      /\ IsFile(tree, S_pacc, << >>, n)
      /\ Suffix(n) = S_py
      /\ n # S_init_py }

\* metadata of a file directly in the PACC directory: a failing read leaves
\* metadata = {}
PaccMetadata(tree, n) ==
  IF ReadFails(tree, S_pacc, << >>, n) THEN << >>
  ELSE RootLevelMetadata(tree, S_pacc, << >>, n)

\* the loop over the files directly in the PACC directory
RECURSIVE GatherPaccFiles(_, _)
GatherPaccFiles(tree, names) ==
  IF names = << >> THEN [entries |-> << >>, error |-> "none", ignored |-> << >>]
  ELSE LET n == Head(names)
           rest == GatherPaccFiles(tree, Tail(names))
       IN IF ExampleError(PaccMetadata(tree, n), S_pacc_slash \o n) # "none"
          THEN [entries |-> << >>,
                error |-> ExampleError(PaccMetadata(tree, n),
                                       S_pacc_slash \o n),
                ignored |-> << >>]
          ELSE [entries |->
                  << ModuleExample(AbsName(S_pacc, << >>, n),
                                   PaccMetadata(tree, n),
                                   S_pacc_dot \o Stem(n),
                                   S_pacc_slash \o n,
                                   Stem(n)) >>
                  \o rest.entries,
                error |-> rest.error, ignored |-> << >>]

\* not examples_dir.exists()
ExamplesRootMissing_Never(tree) == FALSE

ExamplesRootMissing(tree) == S_examples \notin tree.roots

\* get_examples(): one full run of the generator
get_examples(tree) ==
  IF ExamplesRootMissing(tree)
  THEN [entries |-> << >>, error |-> "missing_root", ignored |-> << >>]
  ELSE LET ex == GatherSubdirs(tree, S_examples,
                               SortNames(TopLevelDirs(tree, S_examples)))
       IN IF ex.error # "none" THEN ex
          ELSE IF S_pacc \notin tree.roots THEN ex
          ELSE LET pd == GatherSubdirs(tree, S_pacc,
                                       SortNames(TopLevelDirs(tree, S_pacc)))
               IN IF pd.error # "none"
                  THEN [entries |-> ex.entries \o pd.entries,
                        error |-> pd.error,
                        ignored |-> ex.ignored \o pd.ignored]
                  ELSE LET pf == GatherPaccFiles(tree,
                                                 SortNames(PaccFiles(tree)))
                       IN [entries |->
                             ex.entries \o pd.entries \o pf.entries,
                           error |-> pf.error,
                           ignored |-> ex.ignored \o pd.ignored]

\* ------------------------------------------------------------------------
\* The source trees the model explores
\* ------------------------------------------------------------------------

N_a == << "a" >>
N_aa == << "a", "a" >>
N_a_b == << "a", ".", "b" >>
N_s == << "s" >>
N_t == << "t" >>
N_x_py == << "x" >> \o S_py
N_y_py == << "y" >> \o S_py
N_x_png == << "x", ".", "p", "n", "g" >>
N_m_init_py == << "m" >> \o S_init_py
N_c_py == << "c" >> \o S_py
N_d_py == << "d" >> \o S_py
N_dot_x_py == S_dot \o N_x_py
S_python == << "p", "y", "t", "h", "o", "n" >>

NoMeta == << >>

File(root, dirs, name, utf8, meta) ==
  [root |-> root, dirs |-> dirs, name |-> name, utf8 |-> utf8, meta |-> meta]

\* the files a tree is drawn from
FileUniverse ==
  { File(S_examples, << N_a >>, N_x_py, TRUE, NoMeta),
    File(S_examples, << N_a >>, N_y_py, TRUE,
         [draft |-> TRUE, deploy |-> TRUE]),
    File(S_examples, << N_a >>, N_x_png, FALSE, NoMeta),
    File(S_examples, << N_a >>, S_init_py, TRUE, NoMeta),
    File(S_examples, << N_a >>, N_c_py, TRUE,
         [deploy |-> TRUE, cmd |-> ListValue(<< >>)]),
    File(S_examples, << N_a >>, N_d_py, TRUE, [cmd |-> StrValue(S_python)]),
    File(S_examples, << N_a >>, N_dot_x_py, TRUE, NoMeta),
    File(S_examples, << N_aa >>, N_x_py, TRUE, [deploy |-> TRUE]),
    File(S_examples, << N_aa >>, N_y_py, FALSE, NoMeta),
    File(S_examples, << N_a, N_s >>, N_x_py, TRUE, [draft |-> TRUE]),
    File(S_examples, << N_a, N_s, N_t >>, N_x_py, TRUE, NoMeta),
    File(S_examples, << N_a_b, N_s >>, N_x_py, TRUE, NoMeta),
    File(S_examples, << S_examples >>, N_x_py, TRUE,
         [draft |-> FALSE, args |-> ListValue(<< N_a >>)]),
    File(S_examples, << S_examples >>, N_m_init_py, TRUE, NoMeta),
    File(S_examples, << S_internal >>, N_x_py, TRUE, NoMeta),
    File(S_pacc, << N_a >>, N_x_py, TRUE,
         [deploy |-> TRUE, cmd |-> ListValue(<< S_python, N_x_py >>),
          args |-> ListValue(<< N_a >>)]),
    File(S_pacc, << >>, N_x_py, FALSE, NoMeta) }

\* the trees: at most MaxFiles files, each below a root directory that exists
Trees ==
  { [roots |-> r, files |-> fs] :
      r \in SUBSET { S_examples, S_pacc },
      fs \in { g \in SUBSET FileUniverse : Cardinality(g) <= MaxFiles } }

WellFormedTree(t) == \A f \in t.files : f.root \in t.roots

\* ------------------------------------------------------------------------
\* State
\* ------------------------------------------------------------------------

VARIABLES
  tree,      \* the source tree below EXAMPLES_ROOT
  docs,      \* the output directory: document path |-> content written
  op,        \* the command that ran last
  arg,       \* its argument
  ret,       \* how it ended: it returned a code or raised an exception
  stdout,    \* the lines it printed
  started,   \* the argv of every subprocess it started
  writes,    \* the files it wrote (open(..., "w")), in order
  selected,  \* the value get_examples_to_test returned
  examples,  \* a caller's variable holding the value of get_examples()
  seen,      \* what each use of that value by the caller produced
  generated  \* the runs of generate-docs so far: the extension of each and
             \* the content of the output directory it left

vars ==
  << tree, docs, op, arg, ret, stdout, started, writes, selected, examples,
     seen, generated >>

NoRet == [kind |-> "none", code |-> 0, exc |-> "none"]
Return(v) == [kind |-> "return", code |-> v, exc |-> "none"]
Raise(e) == [kind |-> "raise", code |-> 0, exc |-> e]

Init ==
  /\ tree \in { t \in Trees : WellFormedTree(t) }
  /\ docs = << >>
  /\ op = "none"
  /\ arg = << >>
  /\ ret = NoRet
  /\ stdout = << >>
  /\ started = << >>
  /\ writes = << >>
  /\ selected = << >>
  /\ examples = << >>
  /\ seen = << >>
  /\ generated = << >>

\* ------------------------------------------------------------------------
\* The value of get_examples(): a generator object
\* ------------------------------------------------------------------------
\* get_examples is a generator function (it yields), so a call returns a
\* generator: nothing runs until the value is traversed, one traversal runs
\* the body to its end, and every later traversal finds it finished.

\* get_examples() called: a fresh generator over the tree
NewGenerator(t) == [run |-> get_examples(t), consumed |-> FALSE]

\* the entries one traversal of the generator g produces
GenEntries(g) == IF g.consumed THEN << >> ELSE g.run.entries

\* the exception that traversal ends with ("none": it ends normally)
GenError(g) == IF g.consumed THEN "none" ELSE g.run.error

\* the generator after a traversal
GenAfter(g) == [g EXCEPT !.consumed = TRUE]

\* one use of the caller's value, as recorded in seen
ListResult(g) ==
  IF GenError(g) # "none"
  THEN [kind |-> "raise", value |-> << >>, exc |-> GenError(g)]
  ELSE [kind |-> "list", value |-> GenEntries(g), exc |-> "none"]

\* examples = get_examples()   (test_get_examples, list_examples, ...)
GetExamplesCall ==
  /\ examples' = Some(NewGenerator(tree))
  /\ seen' = << >>
  /\ op' = "get_examples"
  /\ UNCHANGED << tree, docs, arg, ret, stdout, started, writes, selected,
                  generated >>

\* a traversal of the value by the caller: list(examples), a for loop or a
\* comprehension over it
TraverseExamples ==
  /\ examples # None
  /\ Len(seen) < MaxUses
  /\ seen' = Append(seen, ListResult(examples[1]))
  /\ examples' = Some(GenAfter(examples[1]))
  /\ op' = "traverse"
  /\ UNCHANGED << tree, docs, arg, ret, stdout, started, writes, selected,
                  generated >>

\* len(examples): a generator has no len()
LenExamples ==
  /\ examples # None
  /\ Len(seen) < MaxUses
  /\ seen' = Append(seen, [kind |-> "raise", value |-> << >>,
                           exc |-> "TypeError"])
  /\ op' = "len"
  /\ UNCHANGED << tree, docs, arg, ret, stdout, started, writes, selected,
                  examples, generated >>

NextCatalog == GetExamplesCall \/ TraverseExamples \/ LenExamples

SpecCatalog == Init /\ [][NextCatalog]_vars

\* ------------------------------------------------------------------------
\* run_example.py, deploy.py and the run-example / deploy / list commands
\* ------------------------------------------------------------------------

\* a printed line: what kind of message, and the name or query and the
\* number it carries
LineN(kind, text, n) == [kind |-> kind, text |-> text, n |-> n]
Line(kind, text) == LineN(kind, text, 0)

\* how the subprocess of a command ends: it exits with a status, it exceeds
\* the timeout, or it cannot be started (OSError)
Outcomes ==
  { [kind |-> "exit", code |-> 0], [kind |-> "exit", code |-> 1],
    [kind |-> "exit", code |-> 2], [kind |-> "timeout", code |-> 0],
    [kind |-> "oserror", code |-> 0] }

\* the example names and paths the commands are asked for
Queries ==
  { N_a \o S_slash \o N_x_py,    \* a/x.py
    << "x" >>, << "y" >>,        \* stems
    N_aa,                         \* part of a path
    << "s", "/" >>,
    << "z" >> }

\* the result of a command
Result(r, out, procs) == [ret |-> r, stdout |-> out, started |-> procs]

\* a run_script that reports success whatever the subprocess returned
ReturnCode_Success(o) == 0

\* return process.returncode
ReturnCode(o) == o.code

\* run_script(example) when its subprocess ends with outcome o
run_script(example, o) ==
  LET head == << Line("running", example.repo_filename),
                 Line("cli_args", example.repo_filename) >>
  IN IF example.cli_args = None \/ example.cli_args = Some(<< >>)
        \/ o.kind = "oserror"
     THEN \* the argv cannot be built or the process cannot be started:
          \* except Exception
          Result(Return(1),
                 head \o << Line("failed_exception", example.repo_filename) >>,
                 << >>)
     ELSE IF o.kind = "timeout"
     THEN Result(Return(1),
                 head \o << Line("timed_out", example.repo_filename) >>,
                 << example.cli_args[1] >>)
     ELSE Result(Return(ReturnCode(o)),
                 head \o << IF o.code = 0
                            THEN Line("success", example.repo_filename)
                            ELSE LineN("failed_code", example.repo_filename,
                                       o.code) >>,
                 << example.cli_args[1] >>)

\* [e for e in examples if e.repo_filename == q]
ExactMatches(entries, q) ==
  LET Test(e) == e.repo_filename = q IN SelectSeq(entries, Test)

\* [e for e in examples if e.stem == q]
StemMatches(entries, q) ==
  LET Test(e) == e.stem = Some(q) IN SelectSeq(entries, Test)

\* [e for e in examples if q in e.repo_filename]
PartialMatches(entries, q) ==
  LET Test(e) == Contains(e.repo_filename, q) IN SelectSeq(entries, Test)

\* the "- {e.repo_filename}" lines
CandidateLines(matching) ==
  [i \in 1..Len(matching) |-> Line("candidate", matching[i].repo_filename)]

\* the body of run_single_example after examples = get_examples(): the
\* three comprehensions run over the same generator g0, one after the other
RunSingleFrom(g0, q, o) ==
  LET exact == ExactMatches(GenEntries(g0), q)
      g1 == GenAfter(g0)
      byStem == StemMatches(GenEntries(g1), q)
      g2 == GenAfter(g1)
      partial == PartialMatches(GenEntries(g2), q)
      matching_examples ==
        IF exact # << >> THEN exact
        ELSE IF byStem # << >> THEN byStem
        ELSE partial
  IN IF GenError(g0) # "none" THEN Result(Raise(GenError(g0)), << >>, << >>)
     ELSE IF matching_examples = << >>
     THEN Result(Return(1), << Line("not_found", q) >>, << >>)
     ELSE IF Len(matching_examples) > 1
     THEN Result(Return(1),
                 << Line("multiple", q) >> \o CandidateLines(matching_examples),
                 << >>)
     ELSE run_script(matching_examples[1], o)

\* run_single_example(example_name_or_path)
run_single_example(t, q, o) == RunSingleFrom(NewGenerator(t), q, o)

\* list_examples(): the generator is truthy, and len(examples) raises
list_examples(t) == Result(Raise("TypeError"), << >>, << >>)

\* deploy_example(example) when its subprocess ends with outcome o
deploy_example(example, o) ==
  IF example.metadata = None \/ example.metadata = Some(<< >>)
  THEN Result(Return(0),
              << Line("skip_no_metadata", example.repo_filename) >>, << >>)
  ELSE IF ~Get(example.metadata[1], "deploy", FALSE)
  THEN Result(Return(0),
              << Line("skip_not_marked", example.repo_filename) >>, << >>)
  ELSE IF example.cli_args = None \/ example.cli_args = Some(<< >>)
  THEN Result(Return(0),
              << Line("skip_no_command", example.repo_filename) >>, << >>)
  ELSE LET head == << Line("deploying", example.repo_filename),
                      Line("command", example.repo_filename) >>
       IN IF o.kind = "oserror"
          THEN \* only CalledProcessError is caught
               Result(Raise("OSError"), head, << >>)
          ELSE IF o.code = 0
          THEN Result(Return(0),
                      head \o << Line("deployed", example.repo_filename) >>,
                      << example.cli_args[1] >>)
          ELSE Result(Return(1),
                      head \o << Line("deploy_failed",
                                      example.repo_filename) >>,
                      << example.cli_args[1] >>)

\* [e for e in examples
\*    if e.repo_filename == args.example or args.example in e.repo_filename]
DeployMatches(entries, q) ==
  LET Test(e) == e.repo_filename = q \/ Contains(e.repo_filename, q)
  IN SelectSeq(entries, Test)

\* the "deploy -e" branch after examples = get_examples()
DeployFrom(g0, q, o) ==
  LET matching_examples == DeployMatches(GenEntries(g0), q)
  IN IF GenError(g0) # "none" THEN Result(Raise(GenError(g0)), << >>, << >>)
     ELSE IF matching_examples = << >>
     THEN Result(Return(1), << Line("not_found", q) >>, << >>)
     ELSE IF Len(matching_examples) > 1
     THEN Result(Return(1),
                 << Line("multiple", q) >> \o CandidateLines(matching_examples),
                 << >>)
     ELSE deploy_example(matching_examples[1], o)

\* the "deploy -e" branch of __main__.main and of deploy.main
deploy_by_name(t, q, o) == DeployFrom(NewGenerator(t), q, o)

\* one process runs one command: it starts with nothing run yet, and what
\* the command was asked and how it ended is recorded
Ran(name, a, r) ==
  /\ op = "none"
  /\ op' = name
  /\ arg' = a
  /\ ret' = r.ret
  /\ stdout' = r.stdout
  /\ started' = r.started
  /\ UNCHANGED << tree, docs, writes, selected, examples, seen, generated >>

\* python -m internal run-example -e <q>
RunSingleExample ==
  /\ op = "none"
  /\ \E q \in Queries, o \in Outcomes :
       Ran("run-example", q, run_single_example(tree, q, o))

\* python -m internal list   (and run-example -l)
ListExamples == Ran("list", << >>, list_examples(tree))

\* python -m internal deploy -e <q>
MainDeployExample ==
  /\ op = "none"
  /\ \E q \in Queries, o \in { x \in Outcomes : x.kind # "timeout" } :
       Ran("deploy -e", q, deploy_by_name(tree, q, o))

\* python -m internal.deploy -e <q>
DeployMainExample ==
  /\ op = "none"
  /\ \E q \in Queries, o \in { x \in Outcomes : x.kind # "timeout" } :
       Ran("deploy.main -e", q, deploy_by_name(tree, q, o))

\* sys.exit(main()): the process ends; the tree and the output directory stay
Exit ==
  /\ op \notin { "none", "get_examples", "traverse", "len" }
  /\ op' = "none"
  /\ arg' = << >>
  /\ ret' = NoRet
  /\ stdout' = << >>
  /\ started' = << >>
  /\ writes' = << >>
  /\ selected' = << >>
  /\ UNCHANGED << tree, docs, examples, seen, generated >>

NextRun ==
  \/ RunSingleExample
  \/ ListExamples
  \/ MainDeployExample
  \/ DeployMainExample
  \/ Exit

SpecRun == Init /\ [][NextRun]_vars

\* ------------------------------------------------------------------------
\* deploy.py: the batch deploy_examples
\* ------------------------------------------------------------------------

\* how the subprocess of one deployment ends: subprocess.run has no timeout
DeployOutcomes == { x \in Outcomes : x.kind # "timeout" /\ x.code # 2 }

\* the filter of deploy_examples: a Module with metadata, a truthy deploy
\* entry and a non-empty cli_args
ShouldDeploy(e) ==
  /\ e.type = MODULE_T
  /\ e.metadata # None /\ e.metadata # Some(<< >>)
  /\ Get(e.metadata[1], "deploy", FALSE)
  /\ e.cli_args # None /\ e.cli_args # Some(<< >>)

\* the state of the loop over examples_to_deploy
DeployState(out, procs, failed, exc) ==
  [stdout |-> out, started |-> procs, failed |-> failed, exc |-> exc]

\* for example in examples_to_deploy: result = deploy_example(example);
\* the subprocess of the i-th attempt ends with outcome os[i]
RECURSIVE DeployLoop(_, _, _)
DeployLoop(examples_to_deploy, os, st) ==
  IF examples_to_deploy = << >> THEN st
  ELSE LET r == deploy_example(Head(examples_to_deploy), Head(os))
           failed == IF r.ret.kind = "return" /\ r.ret.code # 0
                     THEN st.failed + 1 ELSE st.failed
           next == DeployState(st.stdout \o r.stdout,
                               st.started \o r.started, failed, r.ret.exc)
       IN IF r.ret.kind = "return"
          THEN DeployLoop(Tail(examples_to_deploy), Tail(os), next)
          ELSE \* an exception of deploy_example leaves the loop
               next

\* deploy_examples after examples = get_examples() gave the generator g0
DeployAllFrom(g0, os) ==
  LET examples_to_deploy == SelectSeq(GenEntries(g0), ShouldDeploy)
      found == << LineN("found_to_deploy", << >>, Len(examples_to_deploy)) >>
      st == DeployLoop(examples_to_deploy, os,
                       DeployState(found, << >>, 0, "none"))
  IN IF GenError(g0) # "none" THEN Result(Raise(GenError(g0)), << >>, << >>)
     ELSE IF examples_to_deploy = << >>
     THEN Result(Return(0), << Line("none_to_deploy", << >>) >>, << >>)
     ELSE IF st.exc # "none"
     THEN Result(Raise(st.exc), st.stdout, st.started)
     ELSE IF st.failed > 0
     THEN Result(Return(1),
                 st.stdout \o << LineN("failed_to_deploy", << >>, st.failed) >>,
                 st.started)
     ELSE Result(Return(0),
                 st.stdout \o << LineN("deployed_all", << >>,
                                       Len(examples_to_deploy)) >>,
                 st.started)

\* deploy_examples()
deploy_examples(t, os) == DeployAllFrom(NewGenerator(t), os)

\* the number of subprocesses a batch over the tree can start
DeployableCount(t) == Len(SelectSeq(get_examples(t).entries, ShouldDeploy))

\* python -m internal deploy -a   (and python -m internal.deploy -a)
DeployAll ==
  /\ op = "none"
  /\ \E os \in [1..DeployableCount(tree) -> DeployOutcomes] :
       Ran("deploy -a", os, deploy_examples(tree, os))

NextDeploy == DeployAll \/ Exit

SpecDeploy == Init /\ [][NextDeploy]_vars

\* ------------------------------------------------------------------------
\* tests/generate_test_plan.py: the test-plan command
\* ------------------------------------------------------------------------

\* the changed paths a test plan is asked for
ChangedPaths ==
  { S_internal_slash \o N_x_py,        \* internal/x.py
    S_examples_slash \o N_x_py,        \* examples/x.py
    S_examples_slash \o N_m_init_py,   \* examples/m__init__.py
    N_a \o S_slash \o N_x_py }         \* a/x.py

\* the changed-file lists: up to MaxChanged paths, in any order
ChangedLists ==
  UNION { [1..n -> ChangedPaths] : n \in 0..MaxChanged }

Formats == { "text", "json" }

\* the positions of the changed paths that start with "internal/"
InternalPositions_FirstOnly(changed_files) ==
  { i \in 1..Len(changed_files) :
      i = 1 /\ StartsWith(changed_files[i], S_internal_slash) }

InternalPositions(changed_files) ==
  { i \in 1..Len(changed_files) :
      StartsWith(changed_files[i], S_internal_slash) }

\* changed_py_files
ChangedPyFiles(changed_files) ==
  { changed_files[i] :
      i \in { j \in 1..Len(changed_files) :
                /\ EndsWith(changed_files[j], S_py)
                /\ StartsWith(changed_files[j], S_examples_slash)
                /\ ~EndsWith(changed_files[j], S_init_py) } }

\* get_examples_to_test(changed_files): the value returned.  When a changed
\* path is internal the generator itself is returned, untouched (kind
\* "generator": entries and error are what its traversal produces);
\* otherwise the generator is traversed and a list is returned, or the
\* traversal raises.
SelectFrom(g0, changed_files) ==
  LET InChanged(e) == e.repo_filename \in ChangedPyFiles(changed_files)
  IN IF InternalPositions(changed_files) # {}
     THEN [kind |-> "generator", entries |-> GenEntries(g0),
           error |-> GenError(g0)]
     ELSE IF GenError(g0) # "none"
     THEN [kind |-> "raise", entries |-> << >>, error |-> GenError(g0)]
     ELSE [kind |-> "list", entries |-> SelectSeq(GenEntries(g0), InChanged),
           error |-> "none"]

\* get_examples_to_test(changed_files)
get_examples_to_test(t, changed_files) ==
  SelectFrom(NewGenerator(t), changed_files)

\* the lines of one format for the selected entries
PlanLines(entries, format) ==
  IF format = "json"
  THEN [i \in 1..Len(entries) |-> Line("json", entries[i].repo_filename)]
  ELSE << LineN("test_plan", << >>, Len(entries)) >>
       \o [i \in 1..Len(entries) |-> Line("item", entries[i].repo_filename)]

\* output_test_plan(examples_to_test, format) and the exit code of main, for
\* the value sel of get_examples_to_test
OutputTestPlan(sel, changed_files, format) ==
  LET head ==
        IF InternalPositions(changed_files) # {}
        THEN << Line("internal_changed",
                     changed_files[CHOOSE i \in InternalPositions(changed_files) :
                                     \A j \in InternalPositions(changed_files) :
                                       i <= j]) >>
        ELSE << >>
  IN IF sel.kind = "raise"
     THEN [ret |-> Raise(sel.error), stdout |-> head, selected |-> sel]
     ELSE IF sel.kind = "list"
     THEN IF sel.entries = << >>
          THEN [ret |-> Return(1),
                stdout |-> head \o << Line("no_examples", << >>) >>,
                selected |-> sel]
          ELSE [ret |-> Return(0),
                stdout |-> head \o PlanLines(sel.entries, format),
                selected |-> sel]
     ELSE \* a generator: never falsy
          IF format = "text"
          THEN \* len(examples)
               [ret |-> Raise("TypeError"), stdout |-> head, selected |-> sel]
          ELSE IF sel.error # "none"
          THEN [ret |-> Raise(sel.error), stdout |-> head, selected |-> sel]
          ELSE [ret |-> Return(0),
                stdout |-> head \o PlanLines(sel.entries, format),
                selected |-> sel]

\* main() of generate_test_plan
test_plan_main(t, changed_files, format) ==
  OutputTestPlan(get_examples_to_test(t, changed_files), changed_files, format)

\* the test-plan command ran with result r
RanTestPlan(a, r) ==
  /\ op = "none"
  /\ op' = "test-plan"
  /\ arg' = a
  /\ ret' = r.ret
  /\ stdout' = r.stdout
  /\ selected' = r.selected
  /\ UNCHANGED << tree, docs, started, writes, examples, seen, generated >>

\* python -m internal test-plan --changed-files ... --format ...
TestPlan ==
  /\ op = "none"
  /\ \E changed_files \in ChangedLists, format \in Formats :
       RanTestPlan([changed_files |-> changed_files, format |-> format],
                   test_plan_main(tree, changed_files, format))

NextPlan == TestPlan \/ Exit

SpecPlan == Init /\ [][NextPlan]_vars

\* ------------------------------------------------------------------------
\* generate_docs.py: the generate-docs command
\* ------------------------------------------------------------------------

S_md == << ".", "m", "d" >>
S_mdx == << ".", "m", "d", "x" >>
S_index == << "i", "n", "d", "e", "x" >>
S_curriculum == << "c", "u", "r", "r", "i", "c", "u", "l", "u", "m" >>

\* the choices of the --extension option
Extensions == { S_md, S_mdx }

\* should_include_example(example)
should_include_example(example) ==
  ~\E prefix \in { S_dotvenv, S_venv, S_env, S_node_modules } :
     StartsWith(example.repo_filename, prefix)

\* render_example_md(example) raises: open(example.filename,
\* encoding="utf-8") names a directory, or f.read() meets bytes that are not
\* UTF-8
RenderFails(t, example) ==
  \A f \in t.files :
    AbsName(f.root, f.dirs, f.name) = example.filename => ~f.utf8

\* the document render_example_md(example) returns, identified by the file
\* it is rendered from and the fields of the entry it uses
RenderedPage(example) ==
  [kind |-> "page", src |-> example.filename, repo |-> example.repo_filename,
   links |-> << >>]

\* the path, below docs_dir, of the document of an entry
DocFilename(example, extension) ==
  LET parts == Split(example.repo_filename, "/")
      category == IF Len(parts) > 1 THEN parts[1] ELSE S_misc
  IN category \o S_slash \o Stem(parts[Len(parts)]) \o extension

\* the category an entry is listed under
Category(example) ==
  LET parts == Split(example.repo_filename, "/")
  IN IF Len(parts) > 1 THEN parts[1] ELSE S_misc

\* open(path, "w") ... f.write(content) in the directory d
WriteFile_Append(d, path, content) ==
  [p \in DOMAIN d \cup { path } |->
     IF p # path THEN d[p]
     ELSE IF p \in DOMAIN d THEN [kind |-> "appended", src |-> content.src,
                                  repo |-> content.repo,
                                  links |-> << d[p], content >>]
     ELSE content]

WriteFile(d, path, content) ==
  [p \in DOMAIN d \cup { path } |-> IF p = path THEN content ELSE d[p]]

\* example_categories[category].append(example.repo_filename)
AddToCategory(cats, category, name) ==
  [c \in DOMAIN cats \cup { category } |->
     IF c = category
     THEN (IF c \in DOMAIN cats THEN cats[c] ELSE << >>) \o << name >>
     ELSE cats[c]]

\* the state of one run of generate_docs
DocsState(d, cats, out, w, failed) ==
  [docs |-> d, cats |-> cats, stdout |-> out, writes |-> w, failed |-> failed]

\* the for loop over the examples: render, then write; an exception of
\* render_example_md leaves the loop and the function
RECURSIVE DocsLoop(_, _, _, _)
DocsLoop(t, entries, extension, st) ==
  IF entries = << >> THEN st
  ELSE LET example == Head(entries)
           path == DocFilename(example, extension)
       IN IF RenderFails(t, example)
          THEN [st EXCEPT !.failed = TRUE]
          ELSE DocsLoop(t, Tail(entries), extension,
                 DocsState(
                   WriteFile(st.docs, path, RenderedPage(example)),
                   AddToCategory(st.cats, Category(example),
                                 example.repo_filename),
                   st.stdout \o << Line("generated", path) >>,
                   st.writes \o << [path |-> path, src |-> example.filename] >>,
                   FALSE))

\* the link of one index line
LinkPath(category, name, extension) ==
  LET parts == Split(name, "/")
      base == Stem(parts[Len(parts)]) \o extension
  IN IF parts[1] = S_examples /\ Len(parts) > 2
     THEN parts[2] \o S_slash \o base
     ELSE IF parts[1] = S_curriculum THEN S_curriculum \o S_slash \o base
     ELSE IF parts[1] = S_pacc THEN S_pacc \o S_slash \o base
     ELSE category \o S_slash \o base

\* the index document: for each category in sorted order, the links of its
\* examples in sorted order
IndexLines(cats, extension) ==
  LET order == SortNames(DOMAIN cats)
  IN [i \in 1..Len(order) |->
        [category |-> order[i],
         links |->
           LET names == SortSeq(cats[order[i]], StrLess)
           IN [k \in 1..Len(names) |->
                 LinkPath(order[i], names[k], extension)]]]

\* len(examples) in the last print: the loop over the categories has bound
\* examples to the list of the last category
CreatedCount(included, cats) ==
  IF DOMAIN cats = {} THEN Len(included)
  ELSE LET order == SortNames(DOMAIN cats)
       IN Len(cats[order[Len(order)]])

\* the end of generate_docs: st is the state the loop over the included
\* examples ended in
DocsEnd(included, st, extension) ==
  LET index_path == S_index \o extension
  IN IF st.failed
     THEN [ret |-> Raise("render_error"), docs |-> st.docs,
           stdout |-> st.stdout, writes |-> st.writes]
     ELSE [ret |-> Return(0),
           docs |-> WriteFile(st.docs, index_path,
                              [kind |-> "index", src |-> << >>,
                               repo |-> << >>,
                               links |-> IndexLines(st.cats, extension)]),
           stdout |-> st.stdout
                      \o << Line("generated_index", index_path),
                            LineN("created", << >>,
                                  CreatedCount(included, st.cats)) >>,
           writes |-> st.writes \o << [path |-> index_path, src |-> << >>] >>]

\* generate_docs after the comprehension examples = [ex for ex in examples
\* if should_include_example(ex)] gave the list included
DocsRun(t, included, d, extension) ==
  DocsEnd(included,
          DocsLoop(t, included, extension,
                   DocsState(d, << >>,
                             << LineN("processing", << >>, Len(included)) >>,
                             << >>, FALSE)),
          extension)

\* generate_docs after examples = get_examples() gave the generator g0
DocsFrom(t, g0, d, extension) ==
  IF GenError(g0) # "none"
  THEN [ret |-> Raise(GenError(g0)), docs |-> d, stdout |-> << >>,
        writes |-> << >>]
  ELSE DocsRun(t, SelectSeq(GenEntries(g0), should_include_example), d,
               extension)

\* generate_docs(output_dir, extension), the output directory holding d
generate_docs(t, d, extension) == DocsFrom(t, NewGenerator(t), d, extension)

\* the generate-docs command ran with result r
RanGenerateDocs(a, r) ==
  /\ op = "none"
  /\ Len(generated) < MaxRuns
  /\ op' = "generate-docs"
  /\ arg' = a
  /\ ret' = r.ret
  /\ docs' = r.docs
  /\ stdout' = r.stdout
  /\ writes' = r.writes
  /\ generated' = Append(generated, [extension |-> a, docs |-> r.docs])
  /\ UNCHANGED << tree, started, selected, examples, seen >>

\* python -m internal generate-docs -e <extension>
GenerateDocs ==
  /\ op = "none"
  /\ \E extension \in Extensions :
       RanGenerateDocs(extension, generate_docs(tree, docs, extension))

NextDocs == GenerateDocs \/ Exit

SpecDocs == Init /\ [][NextDocs]_vars

\* ------------------------------------------------------------------------
\* utils.py: parse_frontmatter
\* ------------------------------------------------------------------------
\* A text is a sequence of characters; its lines are separated by "\n".

S_newline == << "\n" >>
S_dashes == << "-", "-", "-" >>

\* the characters \s matches
Whitespace == { " ", "\n" }

\* the lines the texts are made of: delimiter lines without and with a
\* trailing space, a blank line, a "key: value" line, a flush-left line and
\* an indented line
TextLines ==
  { S_dashes, S_dashes \o << " " >>, << >>, << "k", ":", " ", "v" >>,
    << "a" >>, << " ", "a" >> }

\* the texts given to parse_frontmatter: up to max lines
Texts(max) ==
  { Join(S_newline, ls) : ls \in UNION { [1..n -> TextLines] : n \in 0..max } }

\* ^ with re.MULTILINE at position p (the position of the p-th character)
AtLineStart(s, p) == p = 1 \/ s[p - 1] = "\n"

\* $ with re.MULTILINE at position p
AtLineEnd(s, p) == p = Len(s) + 1 \/ s[p] = "\n"

\* the positions at which a match of ^---\s*$ that starts at p can end (the
\* position after its last character)
DelimEnds(s, p) ==
  IF AtLineStart(s, p) /\ p + 2 <= Len(s) /\ SubSeq(s, p, p + 2) = S_dashes
  THEN { q \in (p + 3)..(Len(s) + 1) :
           /\ AtLineEnd(s, q)
           /\ \A k \in (p + 3)..(q - 1) : s[k] \in Whitespace }
  ELSE {}

SetMax(S) == CHOOSE x \in S : \A y \in S : y <= x
SetMin(S) == CHOOSE x \in S : \A y \in S : x <= y

\* the starts of the matches of the closing ^---\s*$ after an opening at p
Closings(s, p) == { c \in (p + 3)..Len(s) : DelimEnds(s, c) # {} }

\* the starts of the matches of the whole pattern
Openings(s) ==
  { p \in 1..Len(s) : DelimEnds(s, p) # {} /\ Closings(s, p) # {} }

\* frontmatter_pattern.search(content): the leftmost match; \s* is greedy
\* and ([\s\S]*?) is lazy.  start is the position of the first character
\* of the match, end the position after its last one, group what group(1)
\* holds.
frontmatter_search(s) ==
  IF Openings(s) = {} THEN None
  ELSE LET p == SetMin(Openings(s))
           c == SetMin(Closings(s, p))
       IN Some([start |-> p,
                end |-> SetMax(DelimEnds(s, c)),
                group |-> SubSeq(s, SetMax(DelimEnds(s, p)), c - 1)])

\* str.strip()
Strip_Trailing(s) ==
  IF \A i \in 1..Len(s) : s[i] \in Whitespace THEN << >>
  ELSE SubSeq(s, 1, SetMax({ i \in 1..Len(s) : s[i] \notin Whitespace }))

Strip(s) ==
  IF \A i \in 1..Len(s) : s[i] \in Whitespace THEN << >>
  ELSE SubSeq(s, SetMin({ i \in 1..Len(s) : s[i] \notin Whitespace }),
              SetMax({ i \in 1..Len(s) : s[i] \notin Whitespace }))

\* the line is a flush-left "key: value" line
IsPairLine(line) ==
  /\ Len(line) >= 4
  /\ line[1] \notin Whitespace \cup { "-", ":" }
  /\ \E i \in 2..(Len(line) - 2) :
       /\ line[i] = ":" /\ line[i + 1] = " "
       /\ \A k \in (1..Len(line)) \ { i, i + 1 } :
            line[k] \notin Whitespace \cup { ":" }

ColonAt(line) == CHOOSE i \in 1..Len(line) : line[i] = ":"
PairKey(line) == SubSeq(line, 1, ColonAt(line) - 1)
PairValue(line) == SubSeq(line, ColonAt(line) + 2, Len(line))

\* the mapping a sequence of "key: value" lines loads to; a later line of
\* the same key replaces the earlier one
RECURSIVE PairsToDict(_)
PairsToDict(ls) ==
  IF ls = << >> THEN << >>
  ELSE LET front == PairsToDict(SubSeq(ls, 1, Len(ls) - 1))
           last == ls[Len(ls)]
       IN [key \in DOMAIN front \cup { PairKey(last) } |->
             IF key = PairKey(last) THEN PairValue(last) ELSE front[key]]

\* yaml.safe_load(yaml_text) or {}: a text of blank lines loads to None,
\* one of "key: value" lines (and blank lines) to that mapping; any other
\* text loads to a value that is not such a mapping, or fails and leaves
\* {}: the model does not tell these apart (kind "other")
YamlLoad(yaml_text) ==
  LET IsBlank(line) == \A i \in 1..Len(line) : line[i] \in Whitespace
      NotBlank(line) == ~IsBlank(line)
      ls == SelectSeq(Split(yaml_text, "\n"), NotBlank)
  IN IF \A i \in 1..Len(ls) : IsPairLine(ls[i])
     THEN [kind |-> "dict", value |-> PairsToDict(ls)]
     ELSE [kind |-> "other", value |-> << >>]

\* parse_frontmatter(content): the pair (metadata, code)
parse_frontmatter(content) ==
  LET match == frontmatter_search(content)
  IN IF match = None THEN << None, content >>
     ELSE << Some(YamlLoad(match[1].group)),
             Strip(SubSeq(content, 1, match[1].start - 1)
                   \o SubSeq(content, match[1].end, Len(content))) >>

\* a caller calls parse_frontmatter(content)
ParseFrontmatter ==
  /\ op = "none"
  /\ \E content \in Texts(MaxLines) :
       Ran("parse_frontmatter", content,
           Result(Return(parse_frontmatter(content)), << >>, << >>))

\* before the call: no source tree is involved
InitParse == Init /\ tree = [roots |-> {}, files |-> {}]

NextParse == ParseFrontmatter \/ Exit

SpecParse == InitParse /\ [][NextParse]_vars

\* ------------------------------------------------------------------------
\* utils.py: render_example_md
\* ------------------------------------------------------------------------

S_hash == << "#" >>
S_hash_space == << "#", " " >>
\* the backtick, which a string of the model cannot hold, is written "^"
Backtick == "^"
S_fence == << Backtick, Backtick, Backtick >>
S_fence_python == S_fence \o S_python
S_title_colon == << "t", "i", "t", "l", "e", ":" >>
S_description_colon ==
  << "d", "e", "s", "c", "r", "i", "p", "t", "i", "o", "n", ":" >>
S_None == << "N", "o", "n", "e" >>

\* github_base_url
github_base_url ==
  << "h", "t", "t", "p", "s", ":", "/", "/", "g", "i", "t", "h", "u",
     "b", ".", "c", "o", "m", "/", "p", "r", "e", "f", "e", "c", "t",
     "h", "q", "/", "e", "x", "a", "m", "p", "l", "e", "s", "/", "b",
     "l", "o", "b", "/", "e", "x", "a", "m", "p", "l", "e", "s", "-",
     "m", "a", "r", "k", "d", "o", "w", "n", "/", "e", "x", "a", "m",
     "p", "l", "e", "s", "/" >>

\* the text of the button before and after the URL
S_button_open == << "<", "a", " ", "h", "r", "e", "f", "=", "\"" >>
S_button_close ==
  << "\"", " ", "t", "a", "r", "g", "e", "t", "=", "\"", "_", "b", "l",
     "a", "n", "k", "\"", ">", "V", "i", "e", "w", " ", "o", "n",
     " ", "G", "i", "t", "H", "u", "b", "<", "/", "a", ">", "\n",
     "\n" >>

\* the texts of the synthesized heading
S_heading_open == << "#", " ", "E", "x", "a", "m", "p", "l", "e", " ", "(" >>
S_heading_mid ==
  << ")", "\n", "\n", "T", "h", "i", "s", " ", "i", "s", " ", "t", "h",
     "e", " ", "s", "o", "u", "r", "c", "e", " ", "c", "o", "d", "e",
     " ", "f", "o", "r", " ", "*", "*" >>
S_heading_close == << "*", "*", ".", "\n" >>

\* the lines the source files are made of: the comment lines of a
\* frontmatter block (delimiter, title, description, another key), a bare
\* comment marker, a blank line, a comment without a space after the marker,
\* a line with a backtick and a line that is a fence
SourceLines ==
  { S_hash_space \o S_dashes,
    S_hash_space \o S_title_colon \o << " ", "t" >>,
    S_hash_space \o S_description_colon \o << " ", "d" >>,
    S_hash_space \o << "k", ":", " ", "v" >>,
    S_hash,
    << >>,
    << "#", "a" >>,
    << Backtick >>,
    S_fence }

\* the contents of the source files of 1 to max lines
Sources(max) ==
  { Join(S_newline, ls) :
      ls \in UNION { [1..n -> SourceLines] : n \in 1..max } }

\* the entries whose files are rendered
RenderExamples ==
  { ModuleExample(AbsName(S_examples, << N_a >>, N_x_py), NoMeta,
                  S_examples_dot \o N_a \o S_dot \o << "x" >>,
                  N_a \o S_slash \o N_x_py, << "x" >>),
    ModuleExample(AbsName(S_examples, << N_aa >>, N_y_py), NoMeta,
                  S_examples_dot \o N_aa \o S_dot \o << "y" >>,
                  N_aa \o S_slash \o N_y_py, << "y" >>) }

\* _RE_NEWLINE.split(content): the pieces between the "\n", a "\r" right
\* before a "\n" belonging to the separator
NewlineSplit(content) ==
  LET pieces == Split(content, "\n")
  IN [i \in 1..Len(pieces) |->
        IF i < Len(pieces) /\ pieces[i] # << >>
           /\ pieces[i][Len(pieces[i])] = "\r"
        THEN SubSeq(pieces[i], 1, Len(pieces[i]) - 1)
        ELSE pieces[i]]

\* line == "#" or line.startswith("# ")
IsProse(line) == line = S_hash \/ StartsWith(line, S_hash_space)

\* ["```python", *code, "```", ""]
Fenced(code) == << S_fence_python >> \o code \o << S_fence, << >> >>

\* the for loop of render_example_md over the lines
RECURSIVE RenderLines(_, _, _)
RenderLines(lines, markdown, code) ==
  IF lines = << >> THEN [markdown |-> markdown, code |-> code]
  ELSE LET line == Head(lines)
       IN IF IsProse(line)
          THEN RenderLines(Tail(lines),
                           (IF code # << >> THEN markdown \o Fenced(code)
                            ELSE markdown)
                             \o << SubSeq(line, 3, Len(line)) >>,
                           << >>)
          ELSE RenderLines(Tail(lines),
                           IF markdown # << >>
                              /\ markdown[Len(markdown)] # << >>
                           THEN Append(markdown, << >>)
                           ELSE markdown,
                           IF code # << >> \/ line # << >>
                           THEN Append(code, line)
                           ELSE code)

\* the list markdown after the loop and the last flush of code
MarkdownLines(content) ==
  LET st == RenderLines(NewlineSplit(content), << >>, << >>)
  IN IF st.code # << >> THEN st.markdown \o Fenced(st.code)
     ELSE st.markdown

\* _RE_FRONTMATTER (^---$, re.MULTILINE) matches at position p
FrontmatterAt(text, p) ==
  /\ AtLineStart(text, p)
  /\ p + 2 <= Len(text)
  /\ SubSeq(text, p, p + 2) = S_dashes
  /\ AtLineEnd(text, p + 3)

\* _RE_FRONTMATTER.search(text, 4): the position of the first character of
\* the leftmost match that starts at the fifth character or later
FrontmatterSearch(text) ==
  LET found == { p \in 5..Len(text) : FrontmatterAt(text, p) }
  IN IF found = {} THEN None ELSE Some(SetMin(found))

\* a rebuilt block that keeps every line of the original block
KeepLine_All(line) == line # S_dashes

\* line.startswith(("title:", "description:"))
KeepLine(line) ==
  StartsWith(line, S_title_colon) \/ StartsWith(line, S_description_colon)

\* the rebuilt frontmatter block for the text up to the end of the match
RECURSIVE KeptLines(_)
KeptLines(ls) ==
  IF ls = << >> THEN << >>
  ELSE (IF KeepLine(Head(ls)) THEN Head(ls) \o S_newline ELSE << >>)
         \o KeptLines(Tail(ls))

\* github_button for the entry
GithubButton(example) ==
  S_button_open \o github_base_url \o example.repo_filename
    \o S_button_close

\* the frontmatter step: text is "\n".join(markdown)
RewriteFrontmatter(text, example) ==
  IF ~FrontmatterAt(text, 1) THEN text
  ELSE LET match == FrontmatterSearch(text)
       IN IF match = None THEN text
          ELSE S_dashes \o S_newline
                 \o KeptLines(Split(SubSeq(text, 1, match[1] + 2), "\n"))
                 \o S_dashes \o S_newline \o S_newline
                 \o GithubButton(example)
                 \o SubSeq(text, match[1] + 4, Len(text))

\* the position after the whitespace that starts at position p
SpaceEnd(s, p) ==
  SetMin({ q \in p..(Len(s) + 1) : q = Len(s) + 1 \/ s[q] \notin Whitespace })

\* _RE_CODEBLOCK.match(text) (\s*```[^`]+```\s*): the position after the
\* last character of the match.  Every quantifier is greedy and none can
\* give back: [^`]+ ends at the first backtick after the opening fence.
CodeblockMatchEnd(text) ==
  LET a == SpaceEnd(text, 1)
      ticks == { q \in (a + 3)..Len(text) : text[q] = Backtick }
  IN IF a + 2 > Len(text) \/ SubSeq(text, a, a + 2) # S_fence
        \/ ticks = {}
     THEN None
     ELSE LET c == SetMin(ticks)
          IN IF c = a + 3 \/ c + 2 > Len(text)
                \/ SubSeq(text, c, c + 2) # S_fence
             THEN None
             ELSE Some(SpaceEnd(text, c + 3))

\* Path(example.filename).name
FileName(example) ==
  Split(example.filename, "/")[Len(Split(example.filename, "/"))]

\* f"{example.module}"
ModuleText(example) ==
  IF example.module = None THEN S_None ELSE example.module[1]

\* the special case of a page that is a single code block
WrapCodeblock(text, example) ==
  IF CodeblockMatchEnd(text) = Some(Len(text) + 1)
  THEN S_heading_open \o FileName(example) \o S_heading_mid
         \o ModuleText(example) \o S_heading_close \o text
  ELSE text

\* render_example_md(example) for a file that holds content
render_example_md(content, example) ==
  WrapCodeblock(
    RewriteFrontmatter(Join(S_newline, MarkdownLines(content)), example),
    example)

\* a caller calls render_example_md(example)
RenderExampleMd ==
  /\ op = "none"
  /\ \E content \in Sources(MaxSrcLines), example \in RenderExamples :
       Ran("render_example_md", [content |-> content, example |-> example],
           Result(Return(render_example_md(content, example)), << >>, << >>))

NextRender == RenderExampleMd \/ Exit

SpecRender == InitParse /\ [][NextRender]_vars

\* ------------------------------------------------------------------------
\* Claims about the lookups of run-example and deploy -e (SpecRun)
\* ------------------------------------------------------------------------

\* the catalog of the tree: one full traversal of get_examples()
Catalog == get_examples(tree)

\* the lines printed by the command that ran
Printed == { stdout[i] : i \in 1..Len(stdout) }

\* the lookup the claims describe: exact path first, then stem, then
\* substring, each over the whole catalog
StagedLookup(entries, q) ==
  IF ExactMatches(entries, q) # << >> THEN ExactMatches(entries, q)
  ELSE IF StemMatches(entries, q) # << >> THEN StemMatches(entries, q)
  ELSE PartialMatches(entries, q)

\* the command went on to run or deploy the entry of that name
ActedOn(name) ==
  \E l \in Printed :
    /\ l.text = name
    /\ l.kind \in { "running", "deploying", "skip_no_metadata",
                    "skip_not_marked", "skip_no_command" }

LookupCommands == { "run-example", "deploy -e", "deploy.main -e" }

\* C5: run_single_example resolves its argument by exact repo_filename, then
\* by stem, then by substring; when the first stage that has a match has
\* exactly one, that entry is run (so a query equal to one entry's stem and
\* to no repo_filename runs that entry).
C5_StagedLookupRuns ==
  (op = "run-example" /\ Catalog.error = "none") =>
    LET m == StagedLookup(Catalog.entries, arg)
    IN Len(m) = 1 => Line("running", m[1].repo_filename) \in Printed

\* C6: in run-example and in deploy -e, a query equal to the repo_filename
\* of exactly one entry resolves to that entry alone and the command acts on
\* it, even when the query is a substring of other entries' repo_filename.
C6_ExactLookupByIdentity ==
  (op \in LookupCommands /\ Catalog.error = "none") =>
    LET m == ExactMatches(Catalog.entries, arg)
    IN Len(m) = 1 =>
         /\ ActedOn(m[1].repo_filename)
         /\ Line("multiple", arg) \notin Printed

\* C7: when the query of run-example or deploy -e matches more than one
\* entry, the command lists every matching repo_filename, starts no
\* subprocess and returns a non-zero exit code.
C7_AmbiguousFailsClosed ==
  (op \in LookupCommands /\ Catalog.error = "none") =>
    LET m == IF op = "run-example"
             THEN StagedLookup(Catalog.entries, arg)
             ELSE IF ExactMatches(Catalog.entries, arg) # << >>
             THEN ExactMatches(Catalog.entries, arg)
             ELSE PartialMatches(Catalog.entries, arg)
    IN Len(m) > 1 =>
         /\ started = << >>
         /\ ret.kind = "return" /\ ret.code # 0
         /\ \A i \in 1..Len(m) :
              Line("candidate", m[i].repo_filename) \in Printed

\* ------------------------------------------------------------------------
\* Claims about generate-docs (SpecDocs)
\* ------------------------------------------------------------------------

\* the entry's metadata declares draft: true
IsDraft(e) == e.metadata # None /\ Get(e.metadata[1], "draft", FALSE)

\* the run that ended wrote a document rendered from the entry's file
WasWritten(e) == \E i \in 1..Len(writes) : writes[i].src = e.filename

\* the entries of the catalog
CatalogEntries == { Catalog.entries[i] : i \in 1..Len(Catalog.entries) }

\* C1: generate_docs never writes an output document for an entry whose
\* metadata declares draft: true; such an entry is skipped, and every other
\* eligible entry is still written.
C1_DraftNeverWritten ==
  op = "generate-docs" =>
    /\ \A e \in CatalogEntries : IsDraft(e) => ~WasWritten(e)
    /\ ret.kind = "return" =>
         \A e \in CatalogEntries :
           (e.type = MODULE_T /\ ~IsDraft(e) /\ should_include_example(e))
             => WasWritten(e)

\* C2: a failure while rendering or writing one entry does not abort the
\* run of generate_docs: every remaining eligible entry is still rendered
\* and written, and the run ends with its summary.
C2_FailureDoesNotAbort ==
  (op = "generate-docs" /\ Catalog.error = "none") =>
    /\ \A e \in CatalogEntries :
         (should_include_example(e) /\ ~IsDraft(e) /\ ~RenderFails(tree, e))
           => WasWritten(e)
    /\ ret.kind = "return"
    /\ \E l \in Printed : l.kind = "created"

\* ------------------------------------------------------------------------
\* Claims about the test plan (SpecPlan)
\* ------------------------------------------------------------------------

\* some changed path of the command that ran lies under "internal/"
SomeInternalChanged ==
  \E i \in 1..Len(arg.changed_files) :
    StartsWith(arg.changed_files[i], S_internal_slash)

\* the file name of a path: its last segment
BaseName(path) == Split(path, "/")[Len(Split(path, "/"))]

\* the changed paths the claim considers: under the examples root, ending
\* in .py, and not a package-init file
EligibleChanged ==
  { arg.changed_files[i] :
      i \in { j \in 1..Len(arg.changed_files) :
                /\ StartsWith(arg.changed_files[j], S_examples_slash)
                /\ EndsWith(arg.changed_files[j], S_py)
                /\ BaseName(arg.changed_files[j]) # S_init_py } }

\* C3: when no changed path lies under the internal-tooling root,
\* get_examples_to_test returns exactly the catalog's Module entries whose
\* repo_filename is one of the changed paths that lie under the examples
\* root, end in .py and are not __init__.py.
C3_ChangedSelectsExactly ==
  (op = "test-plan" /\ ~SomeInternalChanged /\ Catalog.error = "none") =>
    LET Wanted(e) == e.type = MODULE_T /\ e.repo_filename \in EligibleChanged
    IN /\ selected.kind = "list"
       /\ selected.entries = SelectSeq(Catalog.entries, Wanted)

\* C4: if any changed path starts with "internal/", get_examples_to_test
\* selects the full catalog: its value yields every entry get_examples
\* yields, no more and no fewer, whatever else was changed and in whatever
\* order.
C4_InternalSelectsAll ==
  (op = "test-plan" /\ SomeInternalChanged) =>
    /\ selected.kind # "raise"
    /\ selected.entries = Catalog.entries
    /\ selected.error = Catalog.error

\* C4 witness: an internal path listed after an example path, and a catalog
\* with an entry that was not changed, all of it selected
C4_Witness ==
  /\ op = "test-plan"
  /\ Len(arg.changed_files) = 2
  /\ ~StartsWith(arg.changed_files[1], S_internal_slash)
  /\ StartsWith(arg.changed_files[2], S_internal_slash)
  /\ Len(selected.entries) >= 2
  /\ selected.entries = Catalog.entries
  /\ \E i \in 1..Len(selected.entries) :
       selected.entries[i].repo_filename \notin
         { arg.changed_files[j] : j \in 1..2 }

\* ------------------------------------------------------------------------
\* Claims about the catalog (SpecCatalog)
\* ------------------------------------------------------------------------

\* the catalogs the caller obtained by traversing its value
CatalogsSeen == { seen[i].value : i \in { j \in 1..Len(seen) : seen[j].kind = "list" } }

\* C8: the value of get_examples() is restartable: the caller can take its
\* length, and every traversal of it yields the same entries in the same
\* order as the first one.
C8_Restartable ==
  \A i \in 1..Len(seen) :
    /\ seen[i].exc # "TypeError"
    /\ \A j \in 1..Len(seen) :
         (seen[i].kind = "list" /\ seen[j].kind = "list")
           => seen[i].value = seen[j].value

\* C9: within one catalog build (one full traversal of get_examples) no two
\* entries have the same repo_filename.
C9_UniqueRepoFilename ==
  \A c \in CatalogsSeen :
    \A a, b \in 1..Len(c) :
      a # b => c[a].repo_filename # c[b].repo_filename

\* C10: every entry's repo_filename is a non-empty relative path whose
\* segments are the names of the directories leading from the root (the
\* scanned root directory, or EXAMPLES_ROOT) down to the entry's file.
C10_RepoFilenameIsPath ==
  \A c \in CatalogsSeen :
    \A a \in 1..Len(c) :
      LET rf == c[a].repo_filename
          path == Split(c[a].filename, "/")
      IN /\ rf # << >>
         /\ ~StartsWith(rf, S_slash)
         /\ \/ Split(rf, "/") = Tail(path)
            \/ Split(rf, "/") = path

\* the position in seen of the first traversal of the caller's value: the
\* one that runs the body of get_examples
FirstTraversals ==
  { i \in 1..Len(seen) :
      /\ seen[i].exc # "TypeError"
      /\ \A j \in 1..(i - 1) : seen[j].exc = "TypeError" }

\* C11: every entry whose cli_args is present has a non-empty cli_args
\* sequence, whatever the frontmatter gives for cmd and args.
C11_CliArgsNonEmpty ==
  \A c \in CatalogsSeen :
    \A a \in 1..Len(c) :
      c[a].cli_args # None => c[a].cli_args[1] # << >>

\* C12 as stated: a Module entry's cli_args is metadata.cmd followed by
\* metadata.args when the frontmatter declares cmd, and is exactly
\* ['prefect', 'run', repo_filename] when it declares no cmd.
C12_CliArgsAsStated ==
  \A c \in CatalogsSeen :
    \A a \in 1..Len(c) :
      c[a].type = MODULE_T =>
        LET m == c[a].metadata[1]
        IN c[a].cli_args =
             Some(IF "cmd" \in DOMAIN m
                  THEN m.cmd.v \o (IF "args" \in DOMAIN m THEN m.args.v
                                   ELSE << >>)
                  ELSE << S_prefect, S_run, c[a].repo_filename >>)

\* C12 as amended: a Module entry's cli_args is metadata.cmd, or
\* ['prefect', 'run', repo_filename] when the frontmatter declares no cmd,
\* followed by metadata.args, or by nothing when it declares no args.
C12_CliArgsIsCmdThenArgs ==
  \A c \in CatalogsSeen :
    \A a \in 1..Len(c) :
      c[a].type = MODULE_T =>
        LET m == c[a].metadata[1]
        IN c[a].cli_args =
             Some((IF "cmd" \in DOMAIN m THEN m.cmd.v
                   ELSE << S_prefect, S_run, c[a].repo_filename >>)
                  \o (IF "args" \in DOMAIN m THEN m.args.v ELSE << >>))

\* C12 witness: one catalog with an entry that declares cmd and args, and an
\* entry that declares args and no cmd
C12_Witness ==
  \E c \in CatalogsSeen :
    /\ \E a \in 1..Len(c) :
         /\ c[a].type = MODULE_T
         /\ { "cmd", "args" } \subseteq DOMAIN c[a].metadata[1]
         /\ c[a].cli_args = Some(<< S_python, N_x_py, N_a >>)
    /\ \E a \in 1..Len(c) :
         /\ c[a].type = MODULE_T
         /\ "args" \in DOMAIN c[a].metadata[1]
         /\ "cmd" \notin DOMAIN c[a].metadata[1]
         /\ Len(c[a].cli_args[1]) = 4

\* C13: if the examples root directory does not exist, the catalog build
\* fails with the error that names the missing directory, before any entry
\* is produced: the traversal that runs the build yields nothing and raises.
C13_MissingRootFailsFast ==
  S_examples \notin tree.roots =>
    \A i \in FirstTraversals :
      seen[i] = [kind |-> "raise", value |-> << >>, exc |-> "missing_root"]

\* C13 witness: the examples root is missing, the PACC directory holds
\* files, and the build was run
C13_Witness ==
  /\ S_examples \notin tree.roots
  /\ \E f \in tree.files : f.root = S_pacc /\ f.utf8
  /\ FirstTraversals # {}
  /\ \A i \in FirstTraversals : seen[i].exc = "missing_root"

\* the file is a Python module file directly in a scanned top-level
\* directory, readable, with cmd and args of the expected shape
WellShapedModuleFile(f) ==
  /\ Len(f.dirs) = 1
  /\ f.dirs[1] \in TopLevelDirs(tree, f.root)
  /\ Suffix(f.name) = S_py /\ Stem(f.name) # S_init
  /\ f.utf8
  /\ ExampleError(f.meta, f.name) = "none"

\* C14: a Module file whose frontmatter cannot be parsed or whose metadata
\* values have the wrong shape never aborts the catalog build: the build
\* raises nothing because of it, and every other file of every scanned
\* directory is still yielded.
C14_MalformedFileDoesNotAbort ==
  (S_examples \in tree.roots /\ \A f \in tree.files : f.utf8) =>
    \A i \in FirstTraversals :
      /\ seen[i].kind = "list"
      /\ \A f \in tree.files :
           WellShapedModuleFile(f) =>
             \E a \in 1..Len(seen[i].value) :
               seen[i].value[a].filename = AbsName(f.root, f.dirs, f.name)

\* C15: the catalog never contains an entry for a file or directory whose
\* name begins with a dot, at any visited level, nor an entry under a
\* top-level directory named for internal tooling or a noise category.
C15_NoHiddenNoInternal ==
  \A c \in CatalogsSeen :
    \A a \in 1..Len(c) :
      LET path == Split(c[a].filename, "/")
      IN /\ \A k \in 2..Len(path) : ~StartsWith(path[k], S_dot)
         /\ Len(path) > 2 =>
              /\ ~StartsWith(path[2], S_internal)
              /\ ~StartsWith(path[2], S_misc)

\* ------------------------------------------------------------------------
\* More claims about generate-docs (SpecDocs)
\* ------------------------------------------------------------------------

\* C18: generate_docs renders and writes documents only for Module entries:
\* an Asset entry of the catalog produces no output document, and its
\* presence does not stop the run (the run returns when every Module entry
\* can be rendered).
C18_AssetsNotRendered ==
  (op = "generate-docs" /\ Catalog.error = "none") =>
    /\ \A e \in CatalogEntries : e.type = ASSET_T => ~WasWritten(e)
    /\ (\A e \in CatalogEntries :
          e.type = MODULE_T => ~RenderFails(tree, e))
         => ret.kind = "return"

\* C19: in one run of generate_docs no two catalog entries are written to
\* the same output path: after the run, the output file of every entry that
\* was written holds the document rendered from that entry.
C19_NoOverwrite ==
  op = "generate-docs" =>
    \A i \in 1..Len(writes) :
      writes[i].src # << >> => docs[writes[i].path].src = writes[i].src

\* C20: running generate_docs again with the same extension on the same
\* output directory and an unchanged source tree leaves the same output
\* files with the same contents as the run before; each output file name is
\* the entry's first path segment, the stem of its last segment and the
\* extension.
C20_RerunIdempotent ==
  /\ \A i \in 1..(Len(generated) - 1) :
       generated[i].extension = generated[i + 1].extension
         => generated[i + 1].docs = generated[i].docs
  /\ op = "generate-docs" =>
       \A i \in 1..Len(writes) :
         writes[i].src # << >> =>
           \E e \in CatalogEntries :
             /\ e.filename = writes[i].src
             /\ writes[i].path =
                  Split(e.repo_filename, "/")[1] \o S_slash
                  \o Stem(BaseName(e.repo_filename)) \o arg

\* C20 witness: two runs in a row with the same extension, the second one
\* rewriting the documents of two entries and the index
C20_Witness ==
  /\ op = "generate-docs"
  /\ ret.kind = "return"
  /\ Len(generated) >= 2
  /\ generated[Len(generated)].extension
       = generated[Len(generated) - 1].extension
  /\ generated[Len(generated)].docs = generated[Len(generated) - 1].docs
  /\ Len(writes) >= 3
  /\ Cardinality(DOMAIN docs) >= 3

\* ------------------------------------------------------------------------
\* Claims about parse_frontmatter (SpecParse)
\* ------------------------------------------------------------------------

\* the lines of the text parse_frontmatter was given
ArgLines == Split(arg, "\n")

\* a line made of three hyphens, possibly followed by whitespace
IsDelimLine(line) ==
  StartsWith(line, S_dashes) /\ \A i \in 4..Len(line) : line[i] \in Whitespace

IsBlankLine(line) == \A i \in 1..Len(line) : line[i] \in Whitespace

\* C16: for every input text whose first line is not a '---' delimiter
\* line, parse_frontmatter returns (None, x) with x unchanged, also when
\* '---' lines occur later in the text.
C16_NoLeadingDelimiter ==
  (op = "parse_frontmatter" /\ ~IsDelimLine(ArgLines[1])) =>
    ret.code = << None, arg >>

\* the line that closes the block opened by the first line
CloseLine ==
  SetMin({ j \in 2..Len(ArgLines) : IsDelimLine(ArgLines[j]) })

\* the text is a leading '---' ... '---' block of "key: value" lines (and
\* blank lines) followed by body lines
HasLeadingBlock ==
  /\ op = "parse_frontmatter"
  /\ IsDelimLine(ArgLines[1])
  /\ \E j \in 2..Len(ArgLines) : IsDelimLine(ArgLines[j])
  /\ \A k \in 2..(CloseLine - 1) :
       IsPairLine(ArgLines[k]) \/ IsBlankLine(ArgLines[k])

BlockPairs ==
  LET NotBlank(line) == ~IsBlankLine(line)
  IN SelectSeq(SubSeq(ArgLines, 2, CloseLine - 1), NotBlank)

BodyLines == SubSeq(ArgLines, CloseLine + 1, Len(ArgLines))

\* the lines without the leading and the trailing blank lines
TrimBlankLines(ls) ==
  IF \A i \in 1..Len(ls) : IsBlankLine(ls[i]) THEN << >>
  ELSE SubSeq(ls, SetMin({ i \in 1..Len(ls) : ~IsBlankLine(ls[i]) }),
              SetMax({ i \in 1..Len(ls) : ~IsBlankLine(ls[i]) }))

\* a line that is not blank, without its leading / trailing whitespace
LStripLine(line) ==
  SubSeq(line, SetMin({ i \in 1..Len(line) : line[i] \notin Whitespace }),
         Len(line))
RStripLine(line) ==
  SubSeq(line, 1, SetMax({ i \in 1..Len(line) : line[i] \notin Whitespace }))

\* the trimmed lines, the first without its indentation and the last
\* without its trailing whitespace
TrimEnds(ls) ==
  [i \in 1..Len(ls) |->
     IF i = 1 /\ i = Len(ls) THEN RStripLine(LStripLine(ls[i]))
     ELSE IF i = 1 THEN LStripLine(ls[i])
     ELSE IF i = Len(ls) THEN RStripLine(ls[i])
     ELSE ls[i]]

ExampleWrites ==
  LET NotIndex(w) == w.src # << >> IN SelectSeq(writes, NotIndex)

\* C21: the final summary of a generate_docs run reports as generated
\* exactly the number of example documents written in that run, the total
\* over all categories.
C21_SummaryCountsWritten ==
  (op = "generate-docs" /\ ret.kind = "return") =>
    LineN("created", << >>, Len(ExampleWrites)) \in Printed

\* C22: the test-plan command returns 1 exactly when zero entries were
\* selected and 0 exactly when at least one entry was selected, and an
\* empty selection is reported ("No examples to test.") without raising.
C22_ExitCodeTellsEmpty ==
  (op = "test-plan" /\ Catalog.error = "none") =>
    /\ ret.kind = "return"
    /\ ret.code = (IF selected.entries = << >> THEN 1 ELSE 0)
    /\ selected.entries = << >> => Line("no_examples", << >>) \in Printed

\* the lines run_script printed about how the subprocess ended
OutcomeLines ==
  { l \in Printed :
      l.kind \in { "success", "failed_code", "timed_out", "failed_exception" } }

\* C23, as stated: running one example returns 0 when the subprocess exits
\* with status 0 and returns 1 on any failure (a non-zero exit status, a
\* timeout, an exception while starting the subprocess), and never raises.
C23_FailureReturnsOne ==
  (op = "run-example" /\ \E l \in Printed : l.kind = "running") =>
    /\ ret.kind = "return"
    /\ \E l \in OutcomeLines : OutcomeLines = { l }
    /\ \A l \in OutcomeLines :
         ret.code = (IF l.kind = "success" THEN 0 ELSE 1)

\* C23, amended: running one example returns 0 when the subprocess exits
\* with status 0, the subprocess's own non-zero status when it exits with
\* one, and 1 on a timeout or an exception while starting the subprocess;
\* it never raises.
C23_FailureReturnsNonZero ==
  (op = "run-example" /\ \E l \in Printed : l.kind = "running") =>
    /\ ret.kind = "return"
    /\ \E l \in OutcomeLines : OutcomeLines = { l }
    /\ \A l \in OutcomeLines :
         /\ l.kind = "success" => ret.code = 0
         /\ l.kind = "failed_code" => (ret.code = l.n /\ ret.code # 0)
         /\ l.kind \in { "timed_out", "failed_exception" } => ret.code = 1

\* C23 witness: an example ran and its subprocess exited with status 2
C23_Witness ==
  /\ op = "run-example"
  /\ \E l \in Printed : l.kind = "failed_code" /\ l.n = 2
  /\ started # << >>
  /\ ret = Return(2)

\* the entries the batch is to attempt: Module entries flagged deploy: true
\* that have a command, in catalog order
EligibleToDeploy ==
  LET Flagged(e) ==
        /\ e.type = MODULE_T
        /\ e.metadata # None
        /\ Get(e.metadata[1], "deploy", FALSE) = TRUE
        /\ e.cli_args \notin { None, Some(<< >>) }
  IN SelectSeq(Catalog.entries, Flagged)

\* the "Deploying ..." lines of the command that ran, in order
Attempted ==
  LET IsAttempt(l) == l.kind = "deploying" IN SelectSeq(stdout, IsAttempt)

\* C24: deploy_examples attempts exactly the Module entries flagged
\* deploy: true that have a command, in catalog order; a failed deployment
\* (non-zero exit or failure to start the command) does not stop the batch,
\* and the result is 1 if at least one attempt failed and 0 otherwise.
C24_BatchAttemptsAll ==
  (op = "deploy -a" /\ Catalog.error = "none") =>
    /\ Len(Attempted) = Len(EligibleToDeploy)
    /\ \A i \in 1..Len(Attempted) :
         Attempted[i].text = EligibleToDeploy[i].repo_filename
    /\ ret.kind = "return"
    /\ ret.code = (IF \E i \in 1..Len(EligibleToDeploy) :
                        arg[i] # [kind |-> "exit", code |-> 0]
                   THEN 1 ELSE 0)

\* ------------------------------------------------------------------------
\* Claims about the classifier (SpecCatalog)
\* ------------------------------------------------------------------------

\* the roots whose top-level directories are listed
ScannedRoots ==
  IF S_examples \in tree.roots THEN { S_examples, S_pacc } \cap tree.roots
  ELSE { }

\* the items the classifier takes as files: the names listed in a scanned
\* top-level directory that are not directories, and every name listed in a
\* directory of the second level
VisitedItems ==
  UNION { UNION { { [root |-> r, dirs |-> << d >>, n |-> n] :
                      n \in { m \in IterDir(tree, r, << d >>) :
                                ~IsDir(tree, r, << d >>, m) } }
                  \cup UNION { { [root |-> r, dirs |-> << d, s >>, n |-> n] :
                                  n \in IterDir(tree, r, << d, s >>) } :
                              s \in { m \in IterDir(tree, r, << d >>) :
                                        IsDir(tree, r, << d >>, m) } } :
                  d \in TopLevelDirs(tree, r) } :
          r \in ScannedRoots }

\* the entries of the catalog made from the item
YieldedFor(it) ==
  LET FromItem(e) == e.filename = AbsName(it.root, it.dirs, it.n)
  IN SelectSeq(Catalog.entries, FromItem)

\* how many times the item is in the ignored list
IgnoredCount(it) ==
  Cardinality({ i \in 1..Len(Catalog.ignored) :
                  Catalog.ignored[i] = AbsName(it.root, it.dirs, it.n) })

\* C25: every item the classifier visits as a file falls in exactly one of
\* three outcomes: a ".py" name whose stem is not "__init__" yields exactly
\* one Module entry; a name with a media extension yields exactly one Asset
\* entry carrying no metadata, cli_args or import path; anything else
\* yields no entry and is appended to the ignored list.
C25_ThreeOutcomes ==
  FirstTraversals # {} =>
    \A it \in VisitedItems :
      IF Suffix(it.n) = S_py /\ Stem(it.n) # S_init
      THEN /\ Len(YieldedFor(it)) = 1
           /\ YieldedFor(it)[1].type = MODULE_T
           /\ IgnoredCount(it) = 0
      ELSE IF Suffix(it.n) \in MediaExts
      THEN /\ Len(YieldedFor(it)) = 1
           /\ YieldedFor(it)[1].type = ASSET_T
           /\ YieldedFor(it)[1].metadata = None
           /\ YieldedFor(it)[1].cli_args = None
           /\ YieldedFor(it)[1].module = None
           /\ IgnoredCount(it) = 0
      ELSE /\ Len(YieldedFor(it)) = 0
           /\ IgnoredCount(it) = 1

\* every one of the entries is made from a file of the tree that lies at
\* most two directories below its root
FromTwoLevels(entries) ==
  \A a \in 1..Len(entries) :
    \E f \in tree.files :
      /\ entries[a].filename = AbsName(f.root, f.dirs, f.name)
      /\ Len(f.dirs) <= 2

\* C26: from each top-level category directory the classifier yields
\* entries only for files directly in that directory or directly in one of
\* its immediate subdirectories: a directory of the second level is listed
\* non-recursively, and no file below the second level becomes an entry.
C26_TwoLevelsOnly ==
  FirstTraversals # {} => FromTwoLevels(Catalog.entries)

\* C26 witness: the build ran to its end over a tree with a file at the
\* third level and a file at the second level, and yielded the second
C26_Witness ==
  /\ \E f \in tree.files : Len(f.dirs) = 3 /\ f.root = S_examples
                             /\ f.dirs[1] \in TopLevelDirs(tree, S_examples)
  /\ \E i \in FirstTraversals :
       /\ seen[i].kind = "list"
       /\ \E a \in 1..Len(seen[i].value) :
            \E f \in tree.files :
              /\ Len(f.dirs) = 2
              /\ seen[i].value[a].filename = AbsName(f.root, f.dirs, f.name)

\* ------------------------------------------------------------------------
\* Claims about render_example_md (SpecRender)
\* ------------------------------------------------------------------------

\* the lines of the source file that was rendered, and of the text returned
SrcLines == Split(arg.content, "\n")
OutLines == Split(ret.code, "\n")

\* the lines the claims call prose: "#", or beginning with "# "
ProseLine(line) == line = << "#" >> \/ StartsWith(line, << "#", " " >>)

\* the text of a prose line: the line without its comment marker
ProseText(line) == SubSeq(line, 3, Len(line))

\* the source has no leading frontmatter block: its first non-blank line is
\* not the comment line "# ---"
NoLeadingBlock ==
  LET NotBlank(line) == ~IsBlankLine(line)
      nb == SelectSeq(SrcLines, NotBlank)
  IN nb = << >> \/ nb[1] # << "#", " ", "-", "-", "-" >>

\* the maximal runs of code lines of the source that hold a non-blank line:
\* the positions of the first and of the last line of each
CodeRuns ==
  { r \in (1..Len(SrcLines)) \X (1..Len(SrcLines)) :
      /\ r[1] <= r[2]
      /\ \A i \in r[1]..r[2] : ~ProseLine(SrcLines[i])
      /\ r[1] = 1 \/ ProseLine(SrcLines[r[1] - 1])
      /\ r[2] = Len(SrcLines) \/ ProseLine(SrcLines[r[2] + 1])
      /\ \E i \in r[1]..r[2] : ~IsBlankLine(SrcLines[i]) }

\* the fenced block of a run: the run from its first non-blank line on,
\* between an opening and a closing fence line
BlockOf(r) ==
  LET first == SetMin({ i \in r[1]..r[2] : ~IsBlankLine(SrcLines[i]) })
  IN << S_fence_python >> \o SubSeq(SrcLines, first, r[2]) \o << S_fence >>

\* the fence lines of the text returned, in order
FenceLines ==
  LET IsFence(line) == StartsWith(line, S_fence)
  IN SelectSeq(OutLines, IsFence)

\* C27: render_example_md takes a source line for prose exactly when it is
\* "#" or begins with "# ", and for code otherwise; each maximal run of
\* code lines is emitted as exactly one fenced block (an opening
\* "```python" line, the run's lines, a closing "```" line) placed before
\* the prose that follows it, so the fences of the output are balanced and
\* never nested.  (Stated for sources without a leading frontmatter block,
\* and for the run's lines from its first non-blank line on.)
C27_RunsFencedAndBalanced ==
  (op = "render_example_md" /\ NoLeadingBlock) =>
    /\ \A r \in CodeRuns :
         \E k \in 1..Len(OutLines) :
           /\ k + Len(BlockOf(r)) - 1 <= Len(OutLines)
           /\ SubSeq(OutLines, k, k + Len(BlockOf(r)) - 1) = BlockOf(r)
           /\ r[2] < Len(SrcLines) =>
                /\ k + Len(BlockOf(r)) + 1 <= Len(OutLines)
                /\ OutLines[k + Len(BlockOf(r)) + 1]
                     = ProseText(SrcLines[r[2] + 1])
    /\ Len(FenceLines) = 2 * Cardinality(CodeRuns)
    /\ \A i \in 1..Len(FenceLines) :
         FenceLines[i] = (IF i % 2 = 1 THEN S_fence_python ELSE S_fence)

\* the line of the "View on GitHub" link of the entry that was rendered
ButtonLine ==
  << "<", "a", " ", "h", "r", "e", "f", "=", "\"" >>
    \o github_base_url \o arg.example.repo_filename
    \o << "\"", " ", "t", "a", "r", "g", "e", "t", "=", "\"", "_", "b", "l",
          "a", "n", "k", "\"", ">", "V", "i", "e", "w", " ", "o", "n", " ",
          "G", "i", "t", "H", "u", "b", "<", "/", "a", ">" >>

\* the lines of the rendered text before the frontmatter step
RenderedLines == MarkdownLines(arg.content)

\* the positions of the "---" lines after the first line
ClosingLines ==
  { j \in 2..Len(RenderedLines) : RenderedLines[j] = S_dashes }

\* the rendered text begins with a "---" delimited block
BeginsWithBlock ==
  /\ RenderedLines # << >>
  /\ RenderedLines[1] = S_dashes
  /\ ClosingLines # {}

\* the title and description lines of the block, and the lines after it
BlockEntries ==
  LET IsEntry(line) ==
        \/ StartsWith(line, << "t", "i", "t", "l", "e", ":" >>)
        \/ StartsWith(line, << "d", "e", "s", "c", "r", "i", "p", "t", "i",
                               "o", "n", ":" >>)
  IN SelectSeq(SubSeq(RenderedLines, 2, SetMin(ClosingLines) - 1), IsEntry)
AfterBlock ==
  IF SetMin(ClosingLines) = Len(RenderedLines) THEN << << >> >>
  ELSE SubSeq(RenderedLines, SetMin(ClosingLines) + 1, Len(RenderedLines))

\* C28: when the rendered text begins with a "---" delimited block, the
\* block is replaced by a rebuilt block that holds only its title and
\* description entries, the "View on GitHub" link (the fixed base URL
\* followed by the entry's repo_filename) comes right after the new block,
\* and all that followed the original block comes after the link; when the
\* opening "---" has no closing "---", the text is left unchanged.
C28_FrontmatterRebuilt ==
  (op = "render_example_md" /\ RenderedLines # << >>
     /\ RenderedLines[1] = S_dashes) =>
    IF ClosingLines = {}
    THEN ret.code = Join(S_newline, RenderedLines)
    ELSE OutLines = << S_dashes >> \o BlockEntries
                      \o << S_dashes, << >>, ButtonLine, << >> >>
                      \o AfterBlock

\* C28 witness: a block with a title, and a code line after it
C28_Witness ==
  /\ op = "render_example_md"
  /\ BeginsWithBlock
  /\ Len(BlockEntries) = 1
  /\ SetMin(ClosingLines) = 3
  /\ Len(RenderedLines) > 3
  /\ \E i \in 1..Len(OutLines) : OutLines[i] = S_fence_python
  /\ OutLines[5] = ButtonLine

\* the heading synthesized for the entry that was rendered
Heading ==
  << "#", " ", "E", "x", "a", "m", "p", "l", "e", " ", "(" >>
    \o BaseName(arg.example.filename)
    \o << ")", "\n", "\n", "T", "h", "i", "s", " ", "i", "s", " ", "t", "h",
          "e", " ", "s", "o", "u", "r", "c", "e", " ", "c", "o", "d", "e",
          " ", "f", "o", "r", " ", "*", "*" >>
    \o arg.example.module[1]
    \o << "*", "*", ".", "\n" >>

\* C29: whenever the source has no prose line, so that the whole rendered
\* document is one fenced code block, whatever characters the code holds,
\* the document is wrapped with a synthesized heading that names the file
\* and a sentence that names the entry's import path; whenever the
\* document has prose outside the block, no heading is synthesized.
C29_HeadingIffOnlyCode ==
  op = "render_example_md" =>
    /\ ( /\ \A i \in 1..Len(SrcLines) : ~ProseLine(SrcLines[i])
         /\ \E i \in 1..Len(SrcLines) : ~IsBlankLine(SrcLines[i]) )
         => StartsWith(ret.code, Heading)
    /\ ( \E i \in 1..Len(SrcLines) :
           ProseLine(SrcLines[i]) /\ ~IsBlankLine(ProseText(SrcLines[i])) )
         => ~StartsWith(ret.code, << "#", " ", "E", "x", "a", "m", "p", "l",
                                     "e", " ", "(" >>)

\* the lines of the text returned without the synthesized heading
BodyOfOutput ==
  IF StartsWith(ret.code, Heading)
  THEN Split(SubSeq(ret.code, Len(Heading) + 1, Len(ret.code)), "\n")
  ELSE OutLines

\* the non-blank content lines of a Markdown text, each with whether it
\* lies inside a fenced block: a line that begins with a fence opens a
\* block, a fence line closes it
RECURSIVE ContentOf(_, _)
ContentOf(lines, inside) ==
  IF lines = << >> THEN << >>
  ELSE IF ~inside /\ StartsWith(Head(lines), S_fence)
  THEN ContentOf(Tail(lines), TRUE)
  ELSE IF inside /\ Head(lines) = S_fence
  THEN ContentOf(Tail(lines), FALSE)
  ELSE (IF IsBlankLine(Head(lines)) THEN << >>
        ELSE << [text |-> Head(lines), fenced |-> inside] >>)
         \o ContentOf(Tail(lines), inside)

\* the content of the source: its non-blank code lines, and the text of its
\* prose lines, in source order
RECURSIVE ContentOfSource(_)
ContentOfSource(lines) ==
  IF lines = << >> THEN << >>
  ELSE LET line == Head(lines)
           text == IF ProseLine(line) THEN ProseText(line) ELSE line
       IN (IF IsBlankLine(text) THEN << >>
           ELSE << [text |-> text, fenced |-> ~ProseLine(line)] >>)
            \o ContentOfSource(Tail(lines))

\* C30: for a source file without a leading frontmatter block, every
\* non-blank code line appears exactly once, unchanged, inside a fenced
\* block, every prose line appears exactly once outside any fence with its
\* comment marker removed, and the order of these lines in the output is
\* their order in the source.
C30_ContentKeptInOrder ==
  (op = "render_example_md" /\ NoLeadingBlock) =>
    ContentOf(BodyOfOutput, FALSE) = ContentOfSource(SrcLines)
====
